---------------------------- MODULE Spec2Model ----------------------------
(***************************************************************************)
(* prettyZap (src/prettyZap.go): a process-wide zap logger, the HTTP level *)
(* handler registered by InitPrettyZap, and the facade functions.          *)
(*                                                                         *)
(* Go pointers are modelled as sequences of length 0 (nil) or 1.           *)
(* A PreSetConfig value is a function over Fields; a composite literal of  *)
(* the caller is a function over the fields it names, and Struct fills the *)
(* others with Go's zero values.                                           *)
(***************************************************************************)
EXTENDS Integers, Sequences, FiniteSets, TLC

\* ------------------------------------------------------------- bounds
MaxEmits == 2
MaxReqs == 2
\* the connections the server handles concurrently, one goroutine each
Clients == {"c1", "c2"}

\* ---------------------------------------------------------- constants
DefaultPort == "9090"
DefaultLevel == "info"
DefaultURL == "/change/level"
DefaultMaxLogSizeMb == 256
DefaultMaxBackup == 10
DefaultMaxAgeDay == 7
DefaultSvcName == "app"
IsCompress == FALSE

LogOutputStdout == 0
LogOutputFile == 1
LogOutputStdoutAndFile == 2

\* zapcore.Level values named by levelMap
DebugLevel == -1
InfoLevel == 0
WarnLevel == 1
ErrorLevel == 2
DPanicLevel == 3
PanicLevel == 4
FatalLevel == 5

Levels == DebugLevel..FatalLevel

Fields == {"LogFilePath", "HttpPort", "LogLevel", "RestURL", "MaxLogSizeMb",
           "MaxBackup", "MaxAgeDay", "SvcName", "IsCompress", "LogOutputTo"}

\* Go's zero value of every field of PreSetConfig
ZeroCfg ==
    [LogFilePath |-> "", HttpPort |-> "", LogLevel |-> "", RestURL |-> "",
     MaxLogSizeMb |-> 0, MaxBackup |-> 0, MaxAgeDay |-> 0, SvcName |-> "",
     IsCompress |-> FALSE, LogOutputTo |-> 0]

\* the struct a composite literal denotes: unnamed fields are zero
Struct(lit) == [f \in Fields |-> IF f \in DOMAIN lit THEN lit[f] ELSE ZeroCfg[f]]

levelMap ==
    [debug |-> DebugLevel, info |-> InfoLevel, warn |-> WarnLevel,
     error |-> ErrorLevel, dpanic |-> DPanicLevel, panic |-> PanicLevel,
     fatal |-> FatalLevel]

\* os.Args[0] of the modelled process is /opt/app/svc
getAppname == "svc"
getFilePath == "/opt/app/svc.log"

InitialDefaultCfg ==
    [LogFilePath |-> getFilePath, HttpPort |-> DefaultPort,
     LogLevel |-> DefaultLevel, RestURL |-> DefaultURL,
     MaxLogSizeMb |-> DefaultMaxLogSizeMb, MaxBackup |-> DefaultMaxBackup,
     MaxAgeDay |-> DefaultMaxAgeDay, SvcName |-> getAppname,
     IsCompress |-> IsCompress, LogOutputTo |-> LogOutputStdoutAndFile]

\* ------------------------------------------------------ pure functions
getLoggerLevelDebugOnMiss(lvl) ==
    IF lvl \in DOMAIN levelMap THEN levelMap[lvl] ELSE DebugLevel

getLoggerLevel(lvl) ==
    IF lvl \in DOMAIN levelMap THEN levelMap[lvl] ELSE InfoLevel

\* preConfig is a pointer (<<>> is nil); runCfg is &DefaultCfg, never nil
transferCfg(preConfig, runCfg) ==
    IF Len(preConfig) # 0
    THEN [f \in Fields |->
            IF runCfg[f] # preConfig[1][f] THEN preConfig[1][f] ELSE runCfg[f]]
    ELSE runCfg

outputTo(cfg) ==
    CASE cfg.LogOutputTo = LogOutputStdout -> <<"stdout">>
      [] cfg.LogOutputTo = LogOutputFile -> <<"file">>
      [] OTHER -> <<"stdout", "file">>

\* the level comes from the global DefaultCfg, the sinks from the argument
newCore(cfg, globalCfg) ==
    [level |-> getLoggerLevel(globalCfg.LogLevel), sinks |-> outputTo(cfg)]

NewLogger(cfg, globalCfg) ==
    [core |-> newCore(cfg, globalCfg), serviceName |-> cfg.SvcName]

\* zapcore.Level.String of the levels (the lowercase level encoder)
LevelString(l) ==
    CASE l = DebugLevel -> "debug" [] l = InfoLevel -> "info"
      [] l = WarnLevel -> "warn" [] l = ErrorLevel -> "error"
      [] l = DPanicLevel -> "dpanic" [] l = PanicLevel -> "panic"
      [] OTHER -> "fatal"

\* the core's level enabler: a record is written iff its level is enabled
Enabled(coreLevel, lvl) == lvl >= coreLevel

Range(s) == {s[i] : i \in 1..Len(s)}


\* zap's Level.UnmarshalText as used by AtomicLevel.ServeHTTP on the body of
\* a PUT: <<>> is the decode error, <<l>> the level
ParseLevelLenient(name) == <<getLoggerLevel(name)>>

ParseLevel(name) ==
    IF name \in DOMAIN levelMap THEN <<levelMap[name]>> ELSE <<>>

\* AtomicLevel.SetLevel: one atomic store of the new value
SetLevel(old, new) == new

\* ------------------------------------------------------------- inputs
LevelNames == {"debug", "info", "warn", "error", "dpanic", "panic", "fatal"}
ConfigNames == LevelNames \cup {"", "verbose"}
PutNames == LevelNames \cup {"verbose"}
Selectors == {LogOutputStdout, LogOutputFile, LogOutputStdoutAndFile}

FullLit(n, s) ==
    [LogFilePath |-> "/var/log/a.log", HttpPort |-> "8080", LogLevel |-> n,
     RestURL |-> "/lvl", MaxLogSizeMb |-> 1, MaxBackup |-> 3, MaxAgeDay |-> 1,
     SvcName |-> "a", IsCompress |-> TRUE, LogOutputTo |-> s]

\* the composite literals a caller passes to InitPrettyZap
CallerLits ==
    {<<>>, [LogLevel |-> "warn"]}
    \cup {[RestURL |-> "/lvl", LogLevel |-> n] : n \in ConfigNames}
    \cup {[RestURL |-> "/lvl", LogOutputTo |-> s] : s \in Selectors}
    \cup {FullLit("warn", LogOutputFile), FullLit("debug", LogOutputStdoutAndFile)}

\* -------------------------------------------------------------- state
VARIABLES
    lit,          \* the caller's argument: <<>> (nil) or <<composite literal>>
    DefaultCfg,   \* the package variable DefaultCfg
    zapLogger,    \* the package variable zapLogger: <<>> (nil) or <<logger>>
    atomicLevel,  \* the package variable atomicLevel
    mux,          \* patterns registered with http.HandleFunc
    pc,           \* position of the goroutine running InitPrettyZap
    listener,     \* the goroutine of InitPrettyZap: none, spawned, listening, failed
    proc,         \* running, or terminated by an unrecovered panic
    slot,         \* per connection: the request the handler is serving
    lastResp,     \* the response the server sent last
    mutated,      \* whether SetLevel was ever called
    out,          \* what each sink received
    call,         \* the facade function called last
    emits,        \* number of facade calls made
    reqs          \* number of requests accepted

vars == <<lit, DefaultCfg, zapLogger, atomicLevel, mux, pc, listener, proc,
          slot, lastResp, mutated, out, call, emits, reqs>>

SinkNames == {"stdout", "file"}
IdleSlot == [st |-> "idle", req |-> ""]
NoResp == [method |-> "", req |-> "", status |-> 0, body |-> ""]

\* the pointer InitPrettyZap receives
preCfg == IF Len(lit) = 0 THEN <<>> ELSE <<Struct(lit[1])>>

\* the statements of InitPrettyZap in program order
InitStepsListenFirst == <<"HandleFunc", "go", "transferCfg", "NewLogger">>

InitSteps == <<"transferCfg", "HandleFunc", "go", "NewLogger">>

Returned == pc = Len(InitSteps) + 1
AtStep(name) == proc = "running" /\ pc \in 1..Len(InitSteps) /\ InitSteps[pc] = name

Init ==
    /\ lit \in {<<>>} \cup {<<l>> : l \in CallerLits}
    /\ DefaultCfg = InitialDefaultCfg
    /\ zapLogger = <<>>
    /\ atomicLevel = InfoLevel
    /\ mux = {}
    /\ pc = 1
    /\ listener = "none"
    /\ proc = "running"
    /\ slot = [c \in Clients |-> IdleSlot]
    /\ lastResp = NoResp
    /\ mutated = FALSE
    /\ out = [s \in SinkNames |-> <<>>]
    /\ call = ""
    /\ emits = 0
    /\ reqs = 0

\* ------------------------------------------------------ InitPrettyZap
DoTransferCfg ==
    /\ AtStep("transferCfg")
    /\ DefaultCfg' = transferCfg(preCfg, DefaultCfg)
    /\ pc' = pc + 1
    /\ UNCHANGED <<lit, zapLogger, atomicLevel, mux, listener, proc, slot,
                   lastResp, mutated, out, call, emits, reqs>>

\* http.HandleFunc panics on the empty pattern
DoHandleFunc ==
    /\ AtStep("HandleFunc")
    /\ IF DefaultCfg.RestURL = ""
       THEN proc' = "terminated" /\ UNCHANGED <<mux, pc>>
       ELSE mux' = mux \cup {DefaultCfg.RestURL} /\ pc' = pc + 1 /\ UNCHANGED proc
    /\ UNCHANGED <<lit, DefaultCfg, zapLogger, atomicLevel, listener, slot,
                   lastResp, mutated, out, call, emits, reqs>>

DoGo ==
    /\ AtStep("go")
    /\ listener' = "spawned"
    /\ pc' = pc + 1
    /\ UNCHANGED <<lit, DefaultCfg, zapLogger, atomicLevel, mux, proc, slot,
                   lastResp, mutated, out, call, emits, reqs>>

DoNewLogger ==
    /\ AtStep("NewLogger")
    /\ zapLogger' = <<NewLogger(DefaultCfg, DefaultCfg)>>
    /\ pc' = pc + 1
    /\ UNCHANGED <<lit, DefaultCfg, atomicLevel, mux, listener, proc, slot,
                   lastResp, mutated, out, call, emits, reqs>>

\* ------------------------------------------- the listener's goroutine
\* what becomes of the process when http.ListenAndServe returns an error
ProcAfterListenErrLogged == "running"

ProcAfterListenErr == "terminated"

ListenOk ==
    /\ proc = "running" /\ listener = "spawned"
    /\ listener' = "listening"
    /\ UNCHANGED <<lit, DefaultCfg, zapLogger, atomicLevel, mux, pc, proc, slot,
                   lastResp, mutated, out, call, emits, reqs>>

ListenFail ==
    /\ proc = "running" /\ listener = "spawned"
    /\ listener' = "failed"
    /\ proc' = ProcAfterListenErr
    /\ UNCHANGED <<lit, DefaultCfg, zapLogger, atomicLevel, mux, pc, slot,
                   lastResp, mutated, out, call, emits, reqs>>

\* ------------------------------------------- atomicLevel.ServeHTTP
Serving(c) ==
    /\ proc = "running" /\ listener = "listening" /\ mux # {}
    /\ slot[c].st = "idle" /\ reqs < MaxReqs

ServeGet(c) ==
    /\ Serving(c)
    /\ lastResp' = [method |-> "GET", req |-> "", status |-> 200,
                    body |-> LevelString(atomicLevel)]
    /\ reqs' = reqs + 1
    /\ UNCHANGED <<lit, DefaultCfg, zapLogger, atomicLevel, mux, pc, listener,
                   proc, slot, mutated, out, call, emits>>

\* a PUT whose body does not decode: 400, nothing stored
ServePutBad(c, name) ==
    /\ Serving(c)
    /\ Len(ParseLevel(name)) = 0
    /\ lastResp' = [method |-> "PUT", req |-> name, status |-> 400, body |-> "error"]
    /\ reqs' = reqs + 1
    /\ UNCHANGED <<lit, DefaultCfg, zapLogger, atomicLevel, mux, pc, listener,
                   proc, slot, mutated, out, call, emits>>

\* a PUT whose body decodes: the store
ServePutStore(c, name) ==
    /\ Serving(c)
    /\ Len(ParseLevel(name)) = 1
    /\ atomicLevel' = SetLevel(atomicLevel, ParseLevel(name)[1])
    /\ mutated' = TRUE
    /\ slot' = [slot EXCEPT ![c] = [st |-> "stored", req |-> name]]
    /\ reqs' = reqs + 1
    /\ UNCHANGED <<lit, DefaultCfg, zapLogger, mux, pc, listener, proc, lastResp,
                   out, call, emits>>

\* ... and its response, which reads the level again
ServePutReply(c) ==
    /\ proc = "running" /\ slot[c].st = "stored"
    /\ lastResp' = [method |-> "PUT", req |-> slot[c].req, status |-> 200,
                    body |-> LevelString(atomicLevel)]
    /\ slot' = [slot EXCEPT ![c] = IdleSlot]
    /\ UNCHANGED <<lit, DefaultCfg, zapLogger, atomicLevel, mux, pc, listener,
                   proc, mutated, out, call, emits, reqs>>

\* any other method: 405
ServeOther(c) ==
    /\ Serving(c)
    /\ lastResp' = [method |-> "POST", req |-> "", status |-> 405, body |-> "error"]
    /\ reqs' = reqs + 1
    /\ UNCHANGED <<lit, DefaultCfg, zapLogger, atomicLevel, mux, pc, listener,
                   proc, slot, mutated, out, call, emits>>

\* ------------------------------------------------------------ facade
\* the level each facade function logs at
FacadeLevelPanicAsFatal(fn) ==
    CASE fn = "Debug" -> DebugLevel [] fn = "Info" -> InfoLevel
      [] fn = "Warn" -> WarnLevel [] fn = "Error" -> ErrorLevel
      [] OTHER -> FatalLevel

FacadeLevel(fn) ==
    CASE fn = "Debug" -> DebugLevel [] fn = "Info" -> InfoLevel
      [] fn = "Warn" -> WarnLevel [] fn = "Error" -> ErrorLevel
      [] OTHER -> PanicLevel

\* SugaredLogger.Debugf .. Panicf on zapLogger: the record goes to every sink
\* of the core iff the core's level enables it; Panicf panics afterwards
Emit(fn) ==
    /\ proc = "running" /\ Returned /\ Len(zapLogger) = 1
    /\ emits < MaxEmits
    /\ LET core == zapLogger[1].core
           lvl == FacadeLevel(fn)
       IN  out' = [s \in SinkNames |->
                     IF s \in Range(core.sinks) /\ Enabled(core.level, lvl)
                     THEN Append(out[s], LevelString(lvl))
                     ELSE out[s]]
    /\ call' = fn
    /\ emits' = emits + 1
    /\ proc' = IF fn = "Panic" THEN "terminated" ELSE "running"
    /\ UNCHANGED <<lit, DefaultCfg, zapLogger, atomicLevel, mux, pc, listener,
                   slot, lastResp, mutated, reqs>>

Debug == Emit("Debug")
Info == Emit("Info")
Warn == Emit("Warn")
Error == Emit("Error")
Panic == Emit("Panic")

Next ==
    \/ DoTransferCfg
    \/ DoHandleFunc
    \/ DoGo
    \/ DoNewLogger
    \/ ListenOk
    \/ ListenFail
    \/ \E c \in Clients : ServeGet(c)
    \/ \E c \in Clients, name \in PutNames : ServePutBad(c, name)
    \/ \E c \in Clients, name \in PutNames : ServePutStore(c, name)
    \/ \E c \in Clients : ServePutReply(c)
    \/ \E c \in Clients : ServeOther(c)
    \/ Debug
    \/ Info
    \/ Warn
    \/ Error
    \/ Panic

Spec == Init /\ [][Next]_vars

TypeOK ==
    /\ atomicLevel \in Levels
    /\ proc \in {"running", "terminated"}
    /\ listener \in {"none", "spawned", "listening", "failed"}
    /\ emits \in 0..MaxEmits /\ reqs \in 0..MaxReqs


\* ------------------------------------------------------ vocabulary
\* a step that is a facade call; the record it wrote, if any
IsEmit == emits' = emits + 1
Untouched(s) == out'[s] = out[s]
CoreSinks == Range(zapLogger[1].core.sinks)
AllIdle == \A c \in Clients : slot[c].st = "idle"
Merged == \E i \in 1..Len(InitSteps) : InitSteps[i] = "transferCfg" /\ pc > i

\* zap's order of the level names, and the name each facade logs under
LevelOrder == <<"debug", "info", "warn", "error", "dpanic", "panic", "fatal">>
Rank(name) == CHOOSE i \in 1..Len(LevelOrder) : LevelOrder[i] = name
FacadeName(fn) ==
    CASE fn = "Debug" -> "debug" [] fn = "Info" -> "info" [] fn = "Warn" -> "warn"
      [] fn = "Error" -> "error" [] OTHER -> "panic"

\* the five-level order of the specification, its top facade logging as fatal
FiveOrder == <<"debug", "info", "warn", "error", "fatal">>
Rank5(name) == CHOOSE i \in 1..Len(FiveOrder) : FiveOrder[i] = name
FacadeName5(fn) == IF fn = "Panic" THEN "fatal" ELSE FacadeName(fn)

\* what a facade call that passes the filter leaves in the sinks, and one
\* that does not
EmitWritten(rec) ==
    \A s \in SinkNames :
        IF s \in CoreSinks THEN out'[s] = Append(out[s], rec) ELSE Untouched(s)
EmitDropped == \A s \in SinkNames : Untouched(s)
\* one more record in every sink of the sink set, whatever its label
EmitWroteOne ==
    \A s \in SinkNames :
        IF s \in CoreSinks THEN Len(out'[s]) = Len(out[s]) + 1 ELSE Untouched(s)

\* ---------------------------------------------------------------- C1
\* C1: once a mutation request setting the level to V has been answered with
\* success (and no other request is in progress), the next facade call is
\* filtered against V: its record is written iff its level is at least V.
C1_NextEmitFilteredAgainstPut ==
    [][(/\ IsEmit
        /\ AllIdle
        /\ lastResp.method = "PUT" /\ lastResp.status = 200
        /\ lastResp.body = lastResp.req)
       => IF Rank(FacadeName(call')) >= Rank(lastResp.req)
          THEN EmitWritten(FacadeName(call'))
          ELSE EmitDropped]_vars

\* ---------------------------------------------------------------- C2
\* C2 (as stated): in the order debug < info < warn < error < fatal, with
\* the top facade logging at fatal, a facade call on a core configured with
\* level L writes its record to every sink iff its level R >= L, and writes
\* nothing otherwise.
C2_FiveLevelFilter ==
    [][(IsEmit /\ DefaultCfg.LogLevel \in Range(FiveOrder))
       => IF Rank5(FacadeName5(call')) >= Rank5(DefaultCfg.LogLevel)
          THEN EmitWroteOne
          ELSE EmitDropped]_vars

\* C2 (amended): in zap's order debug < info < warn < error < dpanic < panic
\* < fatal, with the top facade logging at panic, a facade call on a core
\* configured with the recognised level name L writes its record to every
\* sink of the sink set iff its level R >= L, and writes nothing otherwise;
\* so a core configured with fatal writes no facade record at all.
C2_SevenLevelFilter ==
    [][(IsEmit /\ DefaultCfg.LogLevel \in LevelNames)
       => IF Rank(FacadeName(call')) >= Rank(DefaultCfg.LogLevel)
          THEN EmitWritten(FacadeName(call'))
          ELSE EmitDropped]_vars

\* a Panic call on a core configured with fatal, after an Error call: both dropped
C2_Witness ==
    /\ Len(zapLogger) = 1 /\ DefaultCfg.LogLevel = "fatal"
    /\ call = "Panic" /\ emits = 2
    /\ out["stdout"] = <<>>

\* ---------------------------------------------------------------- C3
\* a step in which the server takes up a PUT whose level name is not one of
\* the level names
InvalidPutTaken ==
    /\ reqs' = reqs + 1
    /\ \/ slot' = slot /\ lastResp'.method = "PUT" /\ lastResp'.req \notin LevelNames
       \/ \E c \in Clients :
            slot'[c] # slot[c] /\ slot'[c].req \notin LevelNames

C4_GetReturnsConfiguredLevel ==
    (/\ lastResp.method = "GET"
     /\ ~mutated
     /\ Len(lit) = 1
     /\ "LogLevel" \in DOMAIN lit[1]
     /\ lit[1].LogLevel \in LevelNames)
    => lastResp.body = lit[1].LogLevel

\* ---------------------------------------------------------------- C5
\* C5: after transferCfg(C, D), every field of D holds C's value if C sets it
\* (it is not the zero value) and D's original value otherwise.
C5_MergeKeepsDefaults ==
    (Merged /\ Len(lit) = 1)
    => \A f \in Fields :
         DefaultCfg[f] = IF preCfg[1][f] # ZeroCfg[f]
                         THEN preCfg[1][f]
                         ELSE InitialDefaultCfg[f]

\* ---------------------------------------------------------------- C6
\* the selector the caller chose, 'both' when the caller chose none
ChosenSelector ==
    IF Len(lit) = 1 /\ "LogOutputTo" \in DOMAIN lit[1]
    THEN lit[1].LogOutputTo
    ELSE LogOutputStdoutAndFile

\* C6: the sink set of the logger is [stdout] for console-only, [file] for
\* file-only and [stdout, file] for both, and 'both' is the selector in
\* effect when the caller chooses none.
C6_SinksFollowSelector ==
    Len(zapLogger) = 1
    => zapLogger[1].core.sinks =
         CASE ChosenSelector = LogOutputStdout -> <<"stdout">>
           [] ChosenSelector = LogOutputFile -> <<"file">>
           [] OTHER -> <<"stdout", "file">>

\* ---------------------------------------------------------------- C7
\* C7: the threshold cell always holds one of the fixed levels, and once
\* every mutation has completed, each later read observes the last write:
\* a facade call is filtered against the value of the cell.
C7_ReadsObserveLastWrite ==
    /\ [](atomicLevel \in Levels)
    /\ [][(IsEmit /\ mutated /\ AllIdle)
          => IF Enabled(atomicLevel, FacadeLevel(call'))
             THEN EmitWritten(FacadeName(call'))
             ELSE EmitDropped]_vars

\* ---------------------------------------------------------------- C8
\* C8: when the listener fails to bind, the process is terminated: it never
\* listens afterwards and nothing is logged or served after the failure.
C8_BindFailureTerminates ==
    /\ [](listener = "failed" => proc = "terminated")
    /\ [][listener = "failed" => UNCHANGED vars]_vars

\* the bind failed after InitPrettyZap had returned
C8_Witness == listener = "failed" /\ Returned /\ Len(zapLogger) = 1

\* ---------------------------------------------------------------- C9
\* the level each name stands for
NamedLevel(name) ==
    CASE name = "debug" -> -1 [] name = "info" -> 0 [] name = "warn" -> 1
      [] name = "error" -> 2 [] name = "dpanic" -> 3 [] name = "panic" -> 4
      [] name = "fatal" -> 5

\* C9: getLoggerLevel gives every recognised name its level and every other
\* string info; a logger built from a configuration whose level name is
\* malformed or unset filters at info.
C9_LenientLevel ==
    /\ [](Len(zapLogger) = 1
          => zapLogger[1].core.level =
               IF DefaultCfg.LogLevel \in LevelNames
               THEN NamedLevel(DefaultCfg.LogLevel)
               ELSE NamedLevel("info"))
    /\ [][(IsEmit /\ DefaultCfg.LogLevel \notin LevelNames)
          => IF Rank(FacadeName(call')) >= Rank("info")
             THEN EmitWritten(FacadeName(call'))
             ELSE EmitDropped]_vars

\* configured "verbose": an Info record written, then a Debug record dropped
C9_Witness ==
    /\ Len(zapLogger) = 1 /\ DefaultCfg.LogLevel = "verbose"
    /\ emits = 2 /\ call = "Debug"
    /\ out["stdout"] = <<"info">>

\* --------------------------------------------------------------- C10
\* C10 (as stated): no control request is served before the singleton
\* logger is stored.
C10_ServedOnlyAfterLoggerStored ==
    reqs > 0 => Len(zapLogger) = 1

\* C10 (amended): the merge comes first, then the handler is registered and
\* the listener's goroutine is started, and only then is the logger built and
\* stored; a control request is served only after the merge and the
\* registration, but may be served before the logger is stored.
C10_ListenerBeforeLogger ==
    /\ listener # "none" => (Merged /\ mux # {})
    /\ Len(zapLogger) = 1 => listener # "none"
    /\ reqs > 0 => (Merged /\ listener = "listening")

\* a request served while zapLogger is still nil
C10_Witness == reqs > 0 /\ Len(zapLogger) = 0 /\ proc = "running"

=============================================================================
